---------------------------- MODULE Spec2Model ----------------------------
(***************************************************************************)
(* Model of two units of zzy/actix-web:                                    *)
(*   - src/redirect.rs: the Redirect service (builder, registration and    *)
(*     the request handler that computes the Location header);             *)
(*   - src/http/header/content_length.rs: the ContentLength header, a      *)
(*     single `usize` value parsed from and formatted to decimal text.     *)
(* Text is modelled by TLA+ strings, used as sequences of characters.      *)
(***************************************************************************)
EXTENDS Integers, Sequences, FiniteSets, TLC

VARIABLES
    phase,           \* "building" until register(self, ..) consumes the value
    rule,            \* the Redirect value: from, to, status_code
    lastCall,        \* history: the most recent constructor/builder call
    lastTargetCall,  \* history: the most recent to_absolute/to_relative call
    lastStatusCall,  \* history: the most recent temporary/using_status_code call
    mounts,          \* scope prefixes under which the service is registered
    reqs,            \* the requests in flight, by request slot
    raw,             \* Content-Length: the raw values found under the header name
    parsed,          \* Content-Length: result of Header::parse
    formatted,       \* Content-Length: result of Display on the parsed value
    reparsed,        \* Content-Length: result of parsing the formatted text
    cpc              \* Content-Length: how far the parse/format test has got

redirectVars == <<phase, rule, lastCall, lastTargetCall, lastStatusCall, mounts, reqs>>
codecVars == <<raw, parsed, formatted, reparsed, cpc>>
vars == <<phase, rule, lastCall, lastTargetCall, lastStatusCall, mounts, reqs,
          raw, parsed, formatted, reparsed, cpc>>

(***************************************************************************)
(* Bounds                                                                  *)
(***************************************************************************)
MaxReq == 2

Requests == 1..MaxReq

(***************************************************************************)
(* Option values                                                           *)
(***************************************************************************)
None == [some |-> FALSE]

Some(x) == [some |-> TRUE, v |-> x]

(***************************************************************************)
(* Redirect: inputs                                                        *)
(***************************************************************************)
Sources == {"/one", "/external"}

Targets == {"/two", "https://duck.com"}

PERMANENT_REDIRECT == 308

TEMPORARY_REDIRECT == 307

MOVED_PERMANENTLY == 301

StatusCodes == {MOVED_PERMANENTLY, PERMANENT_REDIRECT}

Prefixes == {"", "/scoped"}

NoQuery == "-"

Queries == {NoQuery, "x=1"}

(***************************************************************************)
(* Redirect: the value and its builder methods                             *)
(***************************************************************************)
\* a constructor or builder call, as kept in the history variables
Call(m, t, c) == [method |-> m, text |-> t, code |-> c]

NoCall == Call("none", "", 0)

Absolute(t) == [kind |-> "Absolute", path |-> t]

Relative(t) == [kind |-> "Relative", path |-> t]

from(s) == [from |-> s, to |-> Absolute("/"), status_code |-> PERMANENT_REDIRECT]

to_absolute_ResetsStatus(self, t) ==
    [self EXCEPT !.to = Absolute(t), !.status_code = PERMANENT_REDIRECT]

to_absolute(self, t) == [self EXCEPT !.to = Absolute(t)]

to_relative(self, t) == [self EXCEPT !.to = Relative(t)]

using_status_code(self, status) == [self EXCEPT !.status_code = status]

temporary_Unchanged(self) == self

temporary(self) == using_status_code(self, TEMPORARY_REDIRECT)

(***************************************************************************)
(* Redirect: strings                                                       *)
(***************************************************************************)
ends_with(s, suffix) ==
    /\ Len(suffix) <= Len(s)
    /\ SubSeq(s, Len(s) - Len(suffix) + 1, Len(s)) = suffix

strip_suffix(s, suffix) ==
    IF ends_with(s, suffix)
    THEN Some(SubSeq(s, 1, Len(s) - Len(suffix)))
    ELSE None

\* req.uri().to_string(): the path, then "?" and the query when there is one
UriToString(path, query) ==
    IF query = NoQuery THEN path ELSE path \o "?" \o query

(***************************************************************************)
(* Redirect: the host router.  A request is dispatched to the service when *)
(* its path is a scope prefix followed by the resource pattern; the query  *)
(* takes no part in matching.                                              *)
(***************************************************************************)
Matches(ms, pattern, path) == \E m \in ms : path = m \o pattern

(***************************************************************************)
(* Redirect: the handler's computation of the Location value.  None is the *)
(* unwrap of a failed strip_suffix, i.e. a panic.                          *)
(***************************************************************************)
RedirectTo_AlwaysStrips(r, uri) ==
    LET stripped == strip_suffix(uri, r.from)
    IN  IF stripped.some THEN Some(stripped.v \o r.to.path) ELSE None

RedirectTo(r, uri) ==
    IF r.to.kind = "Absolute"
    THEN Some(r.to.path)
    ELSE LET stripped == strip_suffix(uri, r.from)
         IN  IF stripped.some THEN Some(stripped.v \o r.to.path) ELSE None

IdleReq == [pc |-> "idle", path |-> "", query |-> NoQuery, uri |-> "",
            redirect_to |-> "", status |-> 0, location |-> ""]

(***************************************************************************)
(* Content-Length: the value type.  usize is taken as 64 bits wide and is  *)
(* held as four 16-bit limbs, least significant first, so that the         *)
(* arithmetic keeps its width.                                             *)
(***************************************************************************)
Limb == 65536

Zero == <<0, 0, 0, 0>>

usize_MAX == <<65535, 65535, 65535, 65535>>

\* v * m, None on overflow of the 64-bit width
checked_mul(v, m) ==
    LET t1 == v[1] * m
        t2 == v[2] * m + (t1 \div Limb)
        t3 == v[3] * m + (t2 \div Limb)
        t4 == v[4] * m + (t3 \div Limb)
    IN  IF t4 \div Limb # 0
        THEN None
        ELSE Some(<<t1 % Limb, t2 % Limb, t3 % Limb, t4 % Limb>>)

checked_add_Wrapping(v, a) ==
    LET t1 == v[1] + a
        t2 == v[2] + (t1 \div Limb)
        t3 == v[3] + (t2 \div Limb)
        t4 == v[4] + (t3 \div Limb)
    IN  Some(<<t1 % Limb, t2 % Limb, t3 % Limb, t4 % Limb>>)

\* v + a, None on overflow of the 64-bit width
checked_add(v, a) ==
    LET t1 == v[1] + a
        t2 == v[2] + (t1 \div Limb)
        t3 == v[3] + (t2 \div Limb)
        t4 == v[4] + (t3 \div Limb)
    IN  IF t4 \div Limb # 0
        THEN None
        ELSE Some(<<t1 % Limb, t2 % Limb, t3 % Limb, t4 % Limb>>)

\* quotient and remainder of v by 10
DivMod10(v) ==
    LET c4 == v[4]
        c3 == (c4 % 10) * Limb + v[3]
        c2 == (c3 % 10) * Limb + v[2]
        c1 == (c2 % 10) * Limb + v[1]
    IN  [q |-> <<c1 \div 10, c2 \div 10, c3 \div 10, c4 \div 10>>, r |-> c1 % 10]

DigitChars == <<"0", "1", "2", "3", "4", "5", "6", "7", "8", "9">>

CharAt(s, i) == SubSeq(s, i, i)

IsDigit(c) == \E d \in 1..10 : DigitChars[d] = c

\* char::to_digit(10) on a decimal digit
to_digit(c) == (CHOOSE d \in 1..10 : DigitChars[d] = c) - 1

(***************************************************************************)
(* Content-Length: <usize as FromStr>::from_str, radix 10.  An optional    *)
(* leading '+' is skipped, then every character must be a decimal digit;   *)
(* the result is accumulated with checked_mul and checked_add.             *)
(***************************************************************************)
RECURSIVE ParseDigits(_, _, _)
ParseDigits(s, i, acc) ==
    IF i > Len(s)
    THEN Some(acc)
    ELSE IF ~IsDigit(CharAt(s, i))
         THEN None
         ELSE LET m == checked_mul(acc, 10)
              IN  IF ~m.some
                  THEN None
                  ELSE LET a == checked_add(m.v, to_digit(CharAt(s, i)))
                       IN  IF ~a.some THEN None ELSE ParseDigits(s, i + 1, a.v)

usize_from_str(src) ==
    IF Len(src) = 0
    THEN None
    ELSE LET digits == IF CharAt(src, 1) = "+" THEN SubSeq(src, 2, Len(src)) ELSE src
         IN  IF Len(digits) = 0 THEN None ELSE ParseDigits(digits, 1, Zero)

(***************************************************************************)
(* Content-Length: Display for usize: decimal digits, no sign, no padding  *)
(***************************************************************************)
RECURSIVE FmtDigits(_)
FmtDigits(v) ==
    IF v = Zero
    THEN ""
    ELSE LET d == DivMod10(v) IN FmtDigits(d.q) \o DigitChars[d.r + 1]

usize_fmt_NoZeroCase(v) == FmtDigits(v)

usize_fmt(v) == IF v = Zero THEN "0" ELSE FmtDigits(v)

(***************************************************************************)
(* Content-Length: Header::parse as generated for a single-value header:   *)
(* exactly one raw value must be present, and it must parse as the value   *)
(* type.                                                                   *)
(***************************************************************************)
ParseHeader_FirstWins(vals) ==
    IF Len(vals) = 0 THEN None ELSE usize_from_str(vals[1])

ParseHeader(vals) ==
    IF Len(vals) # 1 THEN None ELSE usize_from_str(vals[1])

(***************************************************************************)
(* Content-Length: inputs                                                  *)
(***************************************************************************)
MaxLen == 2

MaxValues == 2

Alphabet == {"0", "1", "9", "+", "-", ",", "_", " ", "."}

RECURSIVE Strings(_)
Strings(n) ==
    IF n = 0
    THEN {""}
    ELSE LET S == Strings(n - 1) IN S \cup {s \o c : s \in S, c \in Alphabet}

LongValues ==
    {"123", "007", "4294967295", "4294967296", "4294967297", "65535", "65536",
     "1844674407370955161", "18446744073709551610", "18446744073709551614",
     "18446744073709551615", "18446744073709551616", "18446744073709551625",
     "28446744073709551615", "99999999999999999999", "184467440737095516150",
     "00018446744073709551615", "00018446744073709551616",
     "+18446744073709551615", "+18446744073709551616", "+123",
     "123,567", "123_567", "12 ", " 12", "1.5", "12a", "0x10"}

RawValues == Strings(MaxLen) \cup LongValues

DupValues == {"", "1", "2", "x"}

RECURSIVE SeqsOver(_, _)
SeqsOver(S, n) ==
    IF n = 0
    THEN {<<>>}
    ELSE {Append(q, x) : q \in SeqsOver(S, n - 1), x \in S}

HeaderLists ==
    {<<>>} \cup {<<s>> : s \in RawValues}
           \cup UNION {SeqsOver(DupValues, n) : n \in 2..MaxValues}

(***************************************************************************)
(* Content-Length: the parse-and-format test as a state machine            *)
(***************************************************************************)
\* the test builds a request carrying the raw values; the Redirect service is
\* not in use
InitCodec ==
    /\ raw \in HeaderLists
    /\ parsed = None
    /\ formatted = ""
    /\ reparsed = None
    /\ cpc = "raw"
    /\ phase = "off"
    /\ rule = from("/one")
    /\ lastCall = NoCall
    /\ lastTargetCall = NoCall
    /\ lastStatusCall = NoCall
    /\ mounts = {}
    /\ reqs = [i \in Requests |-> IdleReq]

\* HeaderField::parse(&req)
Parse ==
    /\ cpc = "raw"
    /\ parsed' = ParseHeader(raw)
    /\ cpc' = "parsed"
    /\ UNCHANGED <<raw, formatted, reparsed>>
    /\ UNCHANGED redirectVars

\* format!("{}", typed)
Format ==
    /\ cpc = "parsed"
    /\ parsed.some
    /\ formatted' = usize_fmt(parsed.v)
    /\ cpc' = "formatted"
    /\ UNCHANGED <<raw, parsed, reparsed>>
    /\ UNCHANGED redirectVars

\* parsing the formatted text as the only value of the header
Reparse ==
    /\ cpc = "formatted"
    /\ reparsed' = ParseHeader(<<formatted>>)
    /\ cpc' = "reparsed"
    /\ UNCHANGED <<raw, parsed, formatted>>
    /\ UNCHANGED redirectVars

NextCodec == Parse \/ Format \/ Reparse

(***************************************************************************)
(* Redirect: initial state and actions                                     *)
(***************************************************************************)
\* Redirect::from(s); the Content-Length codec is not in use
InitRedirect ==
    /\ phase = "building"
    /\ \E s \in Sources :
          /\ rule = from(s)
          /\ lastCall = Call("from", s, 0)
    /\ lastTargetCall = NoCall
    /\ lastStatusCall = NoCall
    /\ mounts = {}
    /\ reqs = [i \in Requests |-> IdleReq]
    /\ raw = <<>>
    /\ parsed = None
    /\ formatted = ""
    /\ reparsed = None
    /\ cpc = "off"

ToAbsolute(t) ==
    /\ phase = "building"
    /\ rule' = to_absolute(rule, t)
    /\ lastCall' = Call("to_absolute", t, 0)
    /\ lastTargetCall' = Call("to_absolute", t, 0)
    /\ UNCHANGED <<phase, lastStatusCall, mounts, reqs>>
    /\ UNCHANGED codecVars

ToRelative(t) ==
    /\ phase = "building"
    /\ rule' = to_relative(rule, t)
    /\ lastCall' = Call("to_relative", t, 0)
    /\ lastTargetCall' = Call("to_relative", t, 0)
    /\ UNCHANGED <<phase, lastStatusCall, mounts, reqs>>
    /\ UNCHANGED codecVars

Temporary ==
    /\ phase = "building"
    /\ rule' = temporary(rule)
    /\ lastCall' = Call("temporary", "", 0)
    /\ lastStatusCall' = Call("temporary", "", 0)
    /\ UNCHANGED <<phase, lastTargetCall, mounts, reqs>>
    /\ UNCHANGED codecVars

UsingStatusCode(c) ==
    /\ phase = "building"
    /\ rule' = using_status_code(rule, c)
    /\ lastCall' = Call("using_status_code", "", c)
    /\ lastStatusCall' = Call("using_status_code", "", c)
    /\ UNCHANGED <<phase, lastTargetCall, mounts, reqs>>
    /\ UNCHANGED codecVars

\* register(self, config): the fields move into the handler closure and the
\* resource is registered under the scopes the application mounts it in
Register(ms) ==
    /\ phase = "building"
    /\ ms # {}
    /\ phase' = "registered"
    /\ mounts' = ms
    /\ UNCHANGED <<rule, lastCall, lastTargetCall, lastStatusCall, reqs>>
    /\ UNCHANGED codecVars

\* the router hands a matching request to the handler
Dispatch(i, path, query) ==
    /\ phase = "registered"
    /\ reqs[i].pc = "idle"
    /\ Matches(mounts, rule.from, path)
    /\ reqs' = [reqs EXCEPT ![i] = [IdleReq EXCEPT !.pc = "dispatched",
                                                   !.path = path,
                                                   !.query = query]]
    /\ UNCHANGED <<phase, rule, lastCall, lastTargetCall, lastStatusCall, mounts>>
    /\ UNCHANGED codecVars

\* let uri = req.uri().to_string();
ReadUri(i) ==
    /\ reqs[i].pc = "dispatched"
    /\ reqs' = [reqs EXCEPT ![i].pc = "uri_read",
                            ![i].uri = UriToString(reqs[i].path, reqs[i].query)]
    /\ UNCHANGED <<phase, rule, lastCall, lastTargetCall, lastStatusCall, mounts>>
    /\ UNCHANGED codecVars

ComputeRedirect_WritesTarget(i) ==
    /\ reqs[i].pc = "uri_read"
    /\ LET res == RedirectTo(rule, reqs[i].uri)
       IN  /\ reqs' = IF res.some
                      THEN [reqs EXCEPT ![i].pc = "redirect_computed",
                                        ![i].redirect_to = res.v]
                      ELSE [reqs EXCEPT ![i].pc = "panicked"]
           /\ rule' = IF res.some THEN [rule EXCEPT !.to.path = res.v] ELSE rule
    /\ UNCHANGED <<phase, lastCall, lastTargetCall, lastStatusCall, mounts>>
    /\ UNCHANGED codecVars

\* let redirect_to = match &to { .. };
ComputeRedirect(i) ==
    /\ reqs[i].pc = "uri_read"
    /\ LET res == RedirectTo(rule, reqs[i].uri)
       IN  reqs' = IF res.some
                   THEN [reqs EXCEPT ![i].pc = "redirect_computed",
                                     ![i].redirect_to = res.v]
                   ELSE [reqs EXCEPT ![i].pc = "panicked"]
    /\ UNCHANGED <<phase, rule, lastCall, lastTargetCall, lastStatusCall, mounts>>
    /\ UNCHANGED codecVars

\* HttpResponse::build(status_code).header(LOCATION, redirect_to).finish()
Respond(i) ==
    /\ reqs[i].pc = "redirect_computed"
    /\ reqs' = [reqs EXCEPT ![i].pc = "done",
                            ![i].status = rule.status_code,
                            ![i].location = reqs[i].redirect_to]
    /\ UNCHANGED <<phase, rule, lastCall, lastTargetCall, lastStatusCall, mounts>>
    /\ UNCHANGED codecVars

RequestPaths == {m \o s : m \in Prefixes, s \in Sources}

NextRedirect ==
    \/ \E t \in Targets : ToAbsolute(t)
    \/ \E t \in Targets : ToRelative(t)
    \/ Temporary
    \/ \E c \in StatusCodes : UsingStatusCode(c)
    \/ \E ms \in SUBSET Prefixes : Register(ms)
    \/ \E i \in Requests, p \in RequestPaths, q \in Queries : Dispatch(i, p, q)
    \/ \E i \in Requests : ReadUri(i)
    \/ \E i \in Requests : ComputeRedirect(i)
    \/ \E i \in Requests : Respond(i)

Spec == InitRedirect /\ [][NextRedirect]_vars

CodecSpec == InitCodec /\ [][NextCodec]_vars

(***************************************************************************)
(* Properties of the Redirect service                                      *)
(***************************************************************************)
Evaluated(i) == reqs[i].pc \in {"done", "panicked"}

PrefixesOf(path) == {SubSeq(path, 1, k) : k \in 0..Len(path)}

ExpectedTarget ==
    IF lastTargetCall.method = "to_absolute" THEN Absolute(lastTargetCall.text)
    ELSE IF lastTargetCall.method = "to_relative" THEN Relative(lastTargetCall.text)
    ELSE Absolute("/")

ExpectedStatus ==
    IF lastStatusCall.method = "temporary" THEN 307
    ELSE IF lastStatusCall.method = "using_status_code" THEN lastStatusCall.code
    ELSE 308

\* C1: a rule with relative target t and source path s, evaluated on a request
\* whose path is prefix + s, answers with Location = prefix + t.
C1_RelativeLocation ==
    \A i \in Requests :
        (Evaluated(i) /\ rule.to.kind = "Relative") =>
            \A prefix \in PrefixesOf(reqs[i].path) :
                reqs[i].path = prefix \o rule.from =>
                    /\ reqs[i].pc = "done"
                    /\ reqs[i].location = prefix \o rule.to.path

\* C2: a rule with absolute target t answers every request dispatched to it with
\* Location = t exactly, whatever the request path and the source path are.
C2_AbsoluteLocation ==
    \A i \in Requests :
        (Evaluated(i) /\ rule.to.kind = "Absolute") =>
            /\ reqs[i].pc = "done"
            /\ reqs[i].location = rule.to.path

C2_Witness ==
    \E i \in Requests :
        /\ reqs[i].pc = "done"
        /\ rule.to = Absolute("https://duck.com")
        /\ reqs[i].path = "/scoped/one"
        /\ reqs[i].query # NoQuery
        /\ reqs[i].location = "https://duck.com"

\* C3: the status of every response is the configured one: 308 when no status
\* method was called, 307 after temporary(), c after using_status_code(c); the
\* last status method called decides.
C3_Status ==
    \A i \in Requests : reqs[i].pc = "done" => reqs[i].status = ExpectedStatus

C3_Witness ==
    \E i \in Requests :
        /\ reqs[i].pc = "done"
        /\ lastStatusCall.method = "temporary"
        /\ lastCall.method # "temporary"
        /\ reqs[i].status = 307

\* C7: whenever the handler of a relative rule is about to strip the source path
\* from the end of the text of req.uri(), the strip succeeds (the unwrap never
\* meets None).
C7_StripSucceeds ==
    \A i \in Requests :
        (reqs[i].pc = "uri_read" /\ rule.to.kind = "Relative") =>
            strip_suffix(reqs[i].uri, rule.from).some

C8_SameOutput ==
    \A i, j \in Requests :
        /\ (reqs[i].pc = "done" /\ reqs[j].pc = "done" /\ reqs[i].path = reqs[j].path) =>
               /\ reqs[i].status = reqs[j].status
               /\ reqs[i].location = reqs[j].location
        /\ (Evaluated(i) /\ Evaluated(j) /\ reqs[i].path = reqs[j].path
                /\ reqs[i].query = reqs[j].query) =>
               reqs[i].pc = reqs[j].pc

C8_NoMutation == reqs' # reqs => (rule' = rule /\ mounts' = mounts)

C9_State ==
    phase \in {"building", "registered"} =>
        /\ rule.to = ExpectedTarget
        /\ rule.status_code = ExpectedStatus
        /\ lastCall.method = "from" =>
               rule = [from |-> lastCall.text, to |-> Absolute("/"), status_code |-> 308]

C9_Frame ==
    /\ rule'.from = rule.from
    /\ phase' = "building" =>
           /\ lastCall'.method \in {"to_absolute", "to_relative"} =>
                  rule'.status_code = rule.status_code
           /\ lastCall'.method \in {"temporary", "using_status_code"} =>
                  rule'.to = rule.to
           /\ lastCall' = lastCall => rule' = rule

\* C9: from(s) gives source s, target Absolute("/") and status 308; a target
\* method replaces only the target, a status method only the status, the last
\* call of each kind wins, the source path never changes, and repeating the call
\* just made changes nothing.
C9_Builder == []C9_State /\ [][C9_Frame]_vars

C9_Witness ==
    /\ phase = "building"
    /\ lastCall = Call("to_absolute", "/two", 0)
    /\ lastStatusCall = Call("using_status_code", "", 301)
    /\ rule = [from |-> "/external", to |-> Absolute("/two"), status_code |-> 301]

(***************************************************************************)
(* Properties of the Content-Length header                                 *)
(***************************************************************************)
Parsed == cpc \in {"parsed", "formatted", "reparsed"}

Formatted == cpc \in {"formatted", "reparsed"}

AllDigits(s) == Len(s) >= 1 /\ \A i \in 1..Len(s) : IsDigit(CharAt(s, i))

\* decimal text without sign or superfluous leading zeros
IsCanonical(s) == AllDigits(s) /\ (Len(s) = 1 \/ CharAt(s, 1) # "0")

RECURSIVE StripZeros(_)
StripZeros(s) ==
    IF Len(s) > 1 /\ CharAt(s, 1) = "0" THEN StripZeros(SubSeq(s, 2, Len(s))) ELSE s

RECURSIVE LexLE(_, _, _)
LexLE(a, b, i) ==
    IF i > Len(a) THEN TRUE
    ELSE IF to_digit(CharAt(a, i)) < to_digit(CharAt(b, i)) THEN TRUE
    ELSE IF to_digit(CharAt(a, i)) > to_digit(CharAt(b, i)) THEN FALSE
    ELSE LexLE(a, b, i + 1)

\* a <= b as numbers, for canonical decimal texts
DecLE(a, b) == Len(a) < Len(b) \/ (Len(a) = Len(b) /\ LexLE(a, b, 1))

U64MaxText == "18446744073709551615"

\* pairwise coprime moduli whose product exceeds 2^64: two numbers below 2^64
\* with the same residues are equal
Moduli == {32707, 32713, 32717, 32719, 32749}

RECURSIVE DecMod(_, _, _, _)
DecMod(s, m, i, acc) ==
    IF i > Len(s) THEN acc ELSE DecMod(s, m, i + 1, (acc * 10 + to_digit(CharAt(s, i))) % m)

LimbsMod(v, m) ==
    LET r4 == v[4] % m
        r3 == (r4 * Limb + v[3]) % m
        r2 == (r3 * Limb + v[2]) % m
    IN  (r2 * Limb + v[1]) % m

\* C4: zero raw values, or more than one, give None whatever the values are.
C4_SingleOccurrence == (Parsed /\ Len(raw) # 1) => parsed = None

C4_Witness == Parsed /\ raw = <<"1", "2">> /\ parsed = None

\* C5: a single raw value gives Some only if it is one or more decimal digits
\* and nothing else.
C5_DigitsOnly == (Parsed /\ Len(raw) = 1 /\ parsed.some) => AllDigits(raw[1])

\* C6: a single raw value of decimal digits gives Some(v), v its base-10 value,
\* when that value is at most 18446744073709551615, and None above.
C6_FullWidth ==
    (Parsed /\ Len(raw) = 1 /\ AllDigits(raw[1])) =>
        IF DecLE(StripZeros(raw[1]), U64MaxText)
        THEN /\ parsed.some
             /\ \A m \in Moduli : LimbsMod(parsed.v, m) = DecMod(raw[1], m, 1, 0)
        ELSE parsed = None

C6_Witness ==
    /\ Parsed
    /\ raw = <<"18446744073709551615">>
    /\ parsed = Some(usize_MAX)

\* C10 as stated: whenever a single raw value parses to Some(v), formatting v
\* gives back the raw value byte for byte, and the formatted text parses to
\* Some(v).
C10_RoundTrip ==
    /\ (Formatted /\ Len(raw) = 1) => formatted = raw[1]
    /\ cpc = "reparsed" => reparsed = parsed

\* C10 amended: whenever a single raw value parses to Some(v), formatting v gives
\* the canonical decimal text of v, which equals the raw value exactly when the
\* raw value is canonical; the formatted text parses to Some(v).
C10_CanonicalRoundTrip ==
    /\ (Formatted /\ Len(raw) = 1) =>
           /\ IsCanonical(formatted)
           /\ formatted = raw[1] <=> IsCanonical(raw[1])
    /\ cpc = "reparsed" => reparsed = parsed

C10_Witness ==
    /\ cpc = "reparsed"
    /\ raw = <<"007">>
    /\ formatted = "7"
    /\ reparsed = parsed
=============================================================================
